---- MODULE Spec2Model ----
(***************************************************************************)
(* A model of LaTeX-wc: the LaTeX tokenizer (latex_wc/latex_tokens.py),    *)
(* the frequency counter (counting.py) and the two command-line entry      *)
(* points (latex_wc/cli.py and the standalone main.py).                    *)
(*                                                                         *)
(* A text is a TLA+ string; its characters are its substrings of length 1. *)
(* A regular expression of the source is modelled by an operator           *)
(* XMatchEnd(s, i): the position just after the match that the backtracking*)
(* engine finds when it starts at position i of s, or 0 when there is none.*)
(***************************************************************************)
EXTENDS Integers, Sequences, FiniteSets, TLC

\* ------------------------------------------------------------ characters

At(s, i) == IF 1 <= i /\ i <= Len(s) THEN SubSeq(s, i, i) ELSE ""

StartsWith(s, i, lit) ==
    /\ 1 <= i
    /\ i + Len(lit) - 1 <= Len(s)
    /\ SubSeq(s, i, i + Len(lit) - 1) = lit

UpperChars == "ABCDEFGHIJKLMNOPQRSTUVWXYZ"
LowerChars == "abcdefghijklmnopqrstuvwxyz"

Upper == {At(UpperChars, i) : i \in 1..Len(UpperChars)}
Lower == {At(LowerChars, i) : i \in 1..Len(LowerChars)}

\* [A-Za-z]
Letters == Upper \cup Lower

\* [a-zA-Z@]
CmdChars == Letters \cup {"@"}

\* \s of a str pattern, within the characters a TLA+ string can spell
WhiteSpace == {" ", "\t", "\n", "\r", "\f"}

\* the line boundaries of str.splitlines, within the same characters
LineBreaks == {"\n", "\r", "\f"}

\* str.lower on one character
LowerChar(c) ==
    IF c \in Upper
    THEN At(LowerChars, CHOOSE i \in 1..Len(UpperChars) : At(UpperChars, i) = c)
    ELSE c

RECURSIVE LowerStr(_)
LowerStr(s) == IF s = "" THEN "" ELSE LowerChar(Head(s)) \o LowerStr(Tail(s))

\* the element of a set of one element
TheOne(S) == CHOOSE x \in S : TRUE

\* the first position >= i of s whose character is not in C (Len(s)+1 if none)
SkipIn(s, i, C) ==
    CHOOSE j \in i..(Len(s) + 1) :
        /\ j > Len(s) \/ At(s, j) \notin C
        /\ \A k \in i..(j - 1) : At(s, k) \in C

\* the first position >= i of s whose character is in C (Len(s)+1 if none)
SkipNotIn(s, i, C) ==
    CHOOSE j \in i..(Len(s) + 1) :
        /\ j > Len(s) \/ At(s, j) \in C
        /\ \A k \in i..(j - 1) : At(s, k) \notin C

\* the first position >= i of s holding character c, 0 if none
FindChar(s, i, c) ==
    LET p == SkipNotIn(s, i, {c}) IN IF p > Len(s) THEN 0 ELSE p

\* the first position j in i..n with m[j] > 0, 0 if none
FirstMatch(m, i, n) ==
    IF \A j \in i..n : m[j] = 0 THEN 0
    ELSE CHOOSE j \in i..n : m[j] > 0 /\ \A k \in i..(j - 1) : m[k] = 0

\* pattern.sub(rep, s) from position i on: m[j] is the end of the match that
\* starts at j (0: none); the text before the next match is copied, the match
\* is replaced and the scan resumes where the match ended
RECURSIVE SubFrom(_, _, _, _)
SubFrom(s, m, rep, i) ==
    LET j == FirstMatch(m, i, Len(s))
    IN  IF j = 0 THEN SubSeq(s, i, Len(s))
        ELSE SubSeq(s, i, j - 1) \o rep \o SubFrom(s, m, rep, m[j])

\* ------------------------------------------------- stage 1: comments

\* the comment pattern without its lookbehind, %.*$
CommentMatchEnd_NoLookbehind(line, i) ==
    IF At(line, i) = "%" THEN Len(line) + 1 ELSE 0

\* _LATEX_COMMENT_RE  (?<!\\)%.*$  on one line (a line holds no "\n")
CommentMatchEnd(line, i) ==
    IF At(line, i) = "%" /\ At(line, i - 1) # "\\" THEN Len(line) + 1 ELSE 0

\* str.splitlines()
RECURSIVE SplitLinesFrom(_, _)
SplitLinesFrom(s, i) ==
    IF i > Len(s) THEN <<>>
    ELSE LET e == SkipNotIn(s, i, LineBreaks)
             next == IF At(s, e) = "\r" /\ At(s, e + 1) = "\n" THEN e + 2 ELSE e + 1
         IN  <<SubSeq(s, i, e - 1)>> \o SplitLinesFrom(s, next)

splitlines(s) == SplitLinesFrom(s, 1)

\* sep.join(parts)
RECURSIVE join(_, _)
join(sep, parts) ==
    IF parts = <<>> THEN ""
    ELSE IF Len(parts) = 1 THEN parts[1]
    ELSE parts[1] \o sep \o join(sep, Tail(parts))

StripLine(line) ==
    SubFrom(line, [i \in 1..Len(line) |-> CommentMatchEnd(line, i)], "", 1)

_strip_comments(tex) ==
    LET lines == splitlines(tex)
    IN  join("\n", [k \in 1..Len(lines) |-> StripLine(lines[k])])

\* ------------------------------------------------- stage 2: math

MathEnvNames ==
    {"equation", "align", "align*", "equation*", "gather", "gather*",
     "multline", "multline*"}

\* \\begin\{(?:equation|...)\} or \\end\{(?:equation|...)\} at i (kw is the
\* literal up to the brace): the name is what stands before the next "}"
MathTagEnd(s, i, kw) ==
    IF ~StartsWith(s, i, kw) THEN 0
    ELSE LET p == i + Len(kw)
             c == FindChar(s, p, "}")
         IN  IF c > 0 /\ SubSeq(s, p, c - 1) \in MathEnvNames THEN c + 1 ELSE 0

\* .*? then the \end tag: the first \end tag at or after i
FirstMathEnd(s, i) ==
    LET ends == [k \in 1..Len(s) |-> MathTagEnd(s, k, "\\end{")]
        j == FirstMatch(ends, i, Len(s))
    IN  IF j = 0 THEN 0 ELSE ends[j]

\* _MATH_ENV_RE (DOTALL)
MathEnvMatchEnd(s, i) ==
    LET b == MathTagEnd(s, i, "\\begin{")
    IN  IF b = 0 THEN 0 ELSE FirstMathEnd(s, b)

\* where (?:\\.|[^$\\])* stops when it starts at i: an escaped pair or one
\* character other than $ and \ at a time; dotall: "." also matches "\n"
RECURSIVE DollarBodyEnd(_, _, _)
DollarBodyEnd(s, i, dotall) ==
    LET j == SkipNotIn(s, i, {"$", "\\"})
    IN  IF j > Len(s) \/ At(s, j) = "$" THEN j
        ELSE IF j + 1 <= Len(s) /\ (dotall \/ At(s, j + 1) # "\n")
             THEN DollarBodyEnd(s, j + 2, dotall)
             ELSE j

\* _DISPLAY_DOLLAR_MATH_RE  \$\$(?:\\.|[^$\\])*\$\$  (DOTALL)
DisplayMatchEnd(s, i) ==
    IF ~StartsWith(s, i, "$$") THEN 0
    ELSE LET p == DollarBodyEnd(s, i + 2, TRUE)
         IN  IF StartsWith(s, p, "$$") THEN p + 2 ELSE 0

\* _INLINE_DOLLAR_MATH_RE  \$(?:\\.|[^$\\])*\$
InlineMatchEnd(s, i) ==
    IF At(s, i) # "$" THEN 0
    ELSE LET p == DollarBodyEnd(s, i + 1, FALSE)
         IN  IF At(s, p) = "$" THEN p + 1 ELSE 0

\* (?:\\.|[^\\])*\s*\\c (DOTALL) from i: the greedy body runs to the end of
\* the text and backtracks to the last escaped pair \c it passed; best is
\* the end of the last such pair seen so far
RECURSIVE LastCloser(_, _, _, _)
LastCloser(s, i, c, best) ==
    LET j == SkipNotIn(s, i, {"\\"})
    IN  IF j + 1 > Len(s) THEN best
        ELSE LastCloser(s, j + 2, c, IF At(s, j + 1) = c THEN j + 2 ELSE best)

\* _PAREN_MATH_RE  \\\((?:\\.|[^\\])*\s*\\\)  (DOTALL)
ParenMatchEnd(s, i) ==
    IF StartsWith(s, i, "\\(") THEN LastCloser(s, i + 2, ")", 0) ELSE 0

\* _BRACKET_MATH_RE  \\\[(?:\\.|[^\\])*\s*\\\]  (DOTALL)
BracketMatchEnd(s, i) ==
    IF StartsWith(s, i, "\\[") THEN LastCloser(s, i + 2, "]", 0) ELSE 0

\* each tex = pattern.sub(' ', tex) is computed once and then named: t1..t4
\* are the values tex takes after the first four substitutions
_remove_math(tex) ==
    TheOne(
        {SubFrom(t4, [i \in 1..Len(t4) |-> BracketMatchEnd(t4, i)], " ", 1) :
            t4 \in {SubFrom(t3, [i \in 1..Len(t3) |-> ParenMatchEnd(t3, i)], " ", 1) :
            t3 \in {SubFrom(t2, [i \in 1..Len(t2) |-> InlineMatchEnd(t2, i)], " ", 1) :
            t2 \in {SubFrom(t1, [i \in 1..Len(t1) |-> DisplayMatchEnd(t1, i)], " ", 1) :
            t1 \in {SubFrom(tex, [i \in 1..Len(tex) |-> MathEnvMatchEnd(tex, i)], " ", 1)}}}}})

\* ------------------------------------------------- stage 3: drop-commands

_DROP_COMMANDS ==
    <<"cite", "citet", "citep", "citeauthor", "citeyear", "ref", "eqref",
      "pageref", "autoref", "cref", "Cref", "label", "url", "href", "footnote">>

\* (?:\s*\[[^\]]*\])? from i: the position after the option block, i if there
\* is none
OptionEnd(s, i) ==
    LET w == SkipIn(s, i, WhiteSpace)
        c == FindChar(s, w + 1, "]")
    IN  IF At(s, w) = "[" /\ c > 0 THEN c + 1 ELSE i

\* \*?(?:\s*\[[^\]]*\])?\s*\{[^}]*\} from p, the position after the name
DropRestEnd(s, p) ==
    LET p1 == IF At(s, p) = "*" THEN p + 1 ELSE p
        p2 == OptionEnd(s, p1)
        p3 == SkipIn(s, p2, WhiteSpace)
        c  == FindChar(s, p3 + 1, "}")
    IN  IF At(s, p3) = "{" /\ c > 0 THEN c + 1 ELSE 0

\* _DROP_COMMANDS_RE: the first name of the alternation, in its order, after
\* which the rest of the pattern matches
DropMatchEnd(s, i) ==
    IF At(s, i) # "\\" THEN 0
    ELSE LET ok == {k \in 1..Len(_DROP_COMMANDS) :
                       /\ StartsWith(s, i + 1, _DROP_COMMANDS[k])
                       /\ DropRestEnd(s, i + 1 + Len(_DROP_COMMANDS[k])) > 0}
         IN  IF ok = {} THEN 0
             ELSE LET k == CHOOSE k \in ok : \A j \in ok : k <= j
                  IN  DropRestEnd(s, i + 1 + Len(_DROP_COMMANDS[k]))

_remove_drop_commands(tex) ==
    SubFrom(tex, [i \in 1..Len(tex) |-> DropMatchEnd(tex, i)], " ", 1)

\* ------------------------------------------------- stage 4: \begin, \end

\* the tag pattern with \begin alone, \\begin\{[^}]+\}
TagMatchEnd_BeginOnly(s, i) ==
    LET p == IF StartsWith(s, i, "\\begin{") THEN i + Len("\\begin{") ELSE 0
        c == FindChar(s, p, "}")
    IN  IF p > 0 /\ c > p THEN c + 1 ELSE 0

\* _BEGIN_END_TAG_RE  \\(?:begin|end)\{[^}]+\}
TagMatchEnd(s, i) ==
    LET p == IF StartsWith(s, i, "\\begin{") THEN i + Len("\\begin{")
             ELSE IF StartsWith(s, i, "\\end{") THEN i + Len("\\end{")
             ELSE 0
        c == FindChar(s, p, "}")
    IN  IF p > 0 /\ c > p THEN c + 1 ELSE 0

_remove_begin_end_tags(tex) ==
    SubFrom(tex, [i \in 1..Len(tex) |-> TagMatchEnd(tex, i)], " ", 1)

\* ------------------------------------------------- stage 5: command names

\* _LATEX_COMMAND_RE  \\[a-zA-Z@]+[*]?(?:\s*\[[^\]]*\])?
CommandMatchEnd(s, i) ==
    IF At(s, i) = "\\" /\ At(s, i + 1) \in CmdChars
    THEN LET n  == SkipIn(s, i + 1, CmdChars)
             p1 == IF At(s, n) = "*" THEN n + 1 ELSE n
         IN  OptionEnd(s, p1)
    ELSE 0

\* a command removed together with the brace group that follows it
remove_commands_and_argument(tex) ==
    SubFrom(tex,
            [i \in 1..Len(tex) |->
                LET e == CommandMatchEnd(tex, i)
                    c == FindChar(tex, e, "}")
                IN  IF e > 0 /\ At(tex, e) = "{" /\ c > 0 THEN c + 1 ELSE e],
            " ", 1)

_remove_commands_keep_text(tex) ==
    SubFrom(tex, [i \in 1..Len(tex) |-> CommandMatchEnd(tex, i)], " ", 1)

\* ------------------------------------------------- stage 6: cleanup

\* s.replace(c, ' ') for every character c of C
ReplaceChars(s, C) ==
    SubFrom(s, [i \in 1..Len(s) |-> IF At(s, i) \in C THEN i + 1 ELSE 0], " ", 1)

_cleanup_braces_and_controls(tex) == ReplaceChars(tex, {"{", "}", "~", "\\"})

\* ------------------------------------------------- stage 7: tokens

\* _TOKEN_RE  [A-Za-z]+(?:'[A-Za-z]+)?  at i
TokenMatchEnd(s, i) ==
    IF At(s, i) \notin Letters THEN 0
    ELSE LET j == SkipIn(s, i, Letters)
         IN  IF At(s, j) = "'" /\ At(s, j + 1) \in Letters
             THEN SkipIn(s, j + 1, Letters)
             ELSE j

\* _TOKEN_RE.findall(s) from position i on
RECURSIVE FindAllFrom(_, _)
FindAllFrom(s, i) ==
    LET j == SkipNotIn(s, i, Letters)
    IN  IF j > Len(s) THEN <<>>
        ELSE <<SubSeq(s, j, TokenMatchEnd(s, j) - 1)>>
                 \o FindAllFrom(s, TokenMatchEnd(s, j))

\* findall without the lower()
Tokenize_KeepCase(s) == FindAllFrom(s, 1)

Tokenize(s) ==
    LET found == FindAllFrom(s, 1)
    IN  [k \in 1..Len(found) |-> LowerStr(found[k])]

\* t1..t6 are the values the local tex takes after each assignment
extract_tokens_from_latex(tex) ==
    TheOne(
        {Tokenize(t6) :
            t6 \in {_cleanup_braces_and_controls(t5) :
            t5 \in {_remove_commands_keep_text(t4) :
            t4 \in {_remove_begin_end_tags(t3) :
            t3 \in {_remove_drop_commands(t2) :
            t2 \in {_remove_math(t1) :
            t1 \in {_strip_comments(tex)}}}}}}})

\* ------------------------------------------------------------ counting

\* collections.Counter(tokens): the distinct tokens in the order they are
\* first seen, each a pair <<token, occurrences>>
RECURSIVE Counter(_)
Counter(toks) ==
    IF toks = <<>> THEN <<>>
    ELSE LET c == Counter(SubSeq(toks, 1, Len(toks) - 1))
             t == toks[Len(toks)]
         IN  IF \E k \in 1..Len(c) : c[k][1] = t
             THEN [k \in 1..Len(c) |->
                      IF c[k][1] = t THEN <<t, c[k][2] + 1>> ELSE c[k]]
             ELSE Append(c, <<t, 1>>)

\* sum(counter.values())
RECURSIVE SumCounts(_)
SumCounts(items) ==
    IF items = <<>> THEN 0 ELSE items[1][2] + SumCounts(Tail(items))

\* items without the one at position k
Without(items, k) == SubSeq(items, 1, k - 1) \o SubSeq(items, k + 1, Len(items))

\* sorted(items, key=count)[::-1]: ascending and stable, then reversed, so
\* that of two tokens with the same count the one seen last comes first
RECURSIVE SortedReversed(_)
SortedReversed(items) ==
    IF items = <<>> THEN <<>>
    ELSE LET k == CHOOSE k \in 1..Len(items) :
                      /\ \A j \in 1..Len(items) : items[j][2] <= items[k][2]
                      /\ \A j \in (k + 1)..Len(items) : items[j][2] < items[k][2]
         IN  <<items[k]>> \o SortedReversed(Without(items, k))

\* sorted(items, key=count, reverse=True): stable, so that of two tokens with
\* the same count the one seen first comes first
RECURSIVE SortedByCountDesc(_)
SortedByCountDesc(items) ==
    IF items = <<>> THEN <<>>
    ELSE LET k == CHOOSE k \in 1..Len(items) :
                      /\ \A j \in 1..Len(items) : items[j][2] <= items[k][2]
                      /\ \A j \in 1..(k - 1) : items[j][2] < items[k][2]
         IN  <<items[k]>> \o SortedByCountDesc(Without(items, k))

most_common_LastSeenFirst(counter, n) ==
    LET sorted == SortedReversed(counter)
    IN  IF n <= 0 THEN <<>>
        ELSE SubSeq(sorted, 1, IF n < Len(sorted) THEN n ELSE Len(sorted))

\* Counter.most_common(n), n an integer: heapq.nlargest(n, items, key=count),
\* which is sorted(items, key=count, reverse=True)[:n] for n > 0 and the
\* empty list for n <= 0
most_common(counter, n) ==
    LET sorted == SortedByCountDesc(counter)
    IN  IF n <= 0 THEN <<>>
        ELSE SubSeq(sorted, 1, IF n < Len(sorted) THEN n ELSE Len(sorted))

\* count_words with total taken from the distinct tokens
count_words_TotalOfDistinct(toks, n) ==
    LET counter == Counter(toks)
    IN  [total |-> Len(counter),
         unique |-> Len(counter),
         top_words |-> most_common(counter, n),
         raised |-> "none"]

\* count_words(tokens, top_n): the tuple it returns; raised names the
\* exception it ends with, "none" when it returns
count_words(toks, n) ==
    LET counter == Counter(toks)
    IN  [total |-> SumCounts(counter),
         unique |-> Len(counter),
         top_words |-> most_common(counter, n),
         raised |-> "none"]

\* ------------------------------------------------------------ command line

\* _validate_common_inputs(top, min_len): the error message, "None" for None
_validate_common_inputs(top, min_len) ==
    IF top <= 0 THEN "--top must be > 0"
    ELSE IF min_len <= 0 THEN "--min-len must be > 0"
    ELSE "None"

\* the filter with len(t) > min_len
RECURSIVE FilterMinLen_Strict(_, _)
FilterMinLen_Strict(toks, min_len) ==
    IF toks = <<>> THEN <<>>
    ELSE (IF Len(toks[1]) > min_len THEN <<toks[1]>> ELSE <<>>)
             \o FilterMinLen_Strict(Tail(toks), min_len)

\* [t for t in file_tokens if len(t) >= min_len], applied when min_len > 1
RECURSIVE FilterMinLen(_, _)
FilterMinLen(toks, min_len) ==
    IF toks = <<>> THEN <<>>
    ELSE (IF Len(toks[1]) >= min_len THEN <<toks[1]>> ELSE <<>>)
             \o FilterMinLen(Tail(toks), min_len)

FileTokens(text, min_len) ==
    LET file_tokens == extract_tokens_from_latex(text)
    IN  IF min_len > 1 THEN FilterMinLen(file_tokens, min_len) ELSE file_tokens

\* the lines _print_report (cli.py) and main (main.py) print to stdout
ReportLines(is_dir, n_files, top, res) ==
    (IF is_dir THEN <<<<"Directory:">>, <<"Files:", n_files>>>>
     ELSE <<<<"Document:">>>>)
    \o <<<<"Total words:", res.total>>, <<"Unique words:", res.unique>>,
          <<"">>, <<"Top", top, "words:">>>>
    \o res.top_words

\* the text write_words_txt writes
WordsTxt(toks) == join("\n", toks) \o "\n"

\* the rows write_top_words_csv writes
TopWordsCsv(top_words) ==
    <<<<"rank", "word", "count">>>>
    \o [k \in 1..Len(top_words) |-> <<k, top_words[k][1], top_words[k][2]>>]

\* ------------------------------------------------------------ inputs

MaxFiles == 2

MaxTokens == 5
MaxTop == 3

\* every sequence of at most n elements of A
RECURSIVE Seqs(_, _)
Seqs(A, n) ==
    IF n = 0 THEN {<<>>}
    ELSE LET P == Seqs(A, n - 1) IN P \cup {Append(p, a) : p \in P, a \in A}

CountedWords == {"a", "b", "c"}

SpecScenarioTokens == <<"a", "b", "b", "b", "c", "c">>

MaxProseLen == 4
MaxRawLen == 3
MaxArgLen == 2
MaxCommentLen == 2
MaxBodyLen == 2

\* every string of at most n characters drawn from A
RECURSIVE Strs(_, _)
Strs(A, n) ==
    IF n = 0 THEN {""}
    ELSE LET P == Strs(A, n - 1) IN P \cup {p \o a : p \in P, a \in A}

\* plain prose: no backslash, %, $, {, } or ~
ProseAlphabet == {"a", "B", "'", " ", "1"}
RawAlphabet == {"a", "'", " ", "\\", "%", "$", "{", "}", "\n"}
ArgAlphabet == {"a", "B", "'", " "}
CommentAlphabet == {"c", " ", "%", "\\", "$"}
MathAlphabet == {"x", " ", "\\", "\n"}
WordAlphabet == {"a", "B", " "}

\* prose written before and after a construct, with and without a space
\* between it and the construct
Contexts == {"", "Hi ", "x", "it's "}

\* command names that are neither drop-commands nor begin/end; some start
\* with one
GenericNames == {"textbf", "LaTeX", "a@b", "citefoo", "beginx", "ending"}

DropNames == {_DROP_COMMANDS[k] : k \in 1..Len(_DROP_COMMANDS)}

\* brace-balanced argument texts of a drop-command
DropArgs == {"key", "a,b", "http://a.b/c", "{x}", "see {nested} text"}

\* the delimiters of a math span, by kind
MathDelims ==
    {<<"$", "$">>, <<"$$", "$$">>, <<"\\(", "\\)">>, <<"\\[", "\\]">>,
     <<"\\begin{equation}", "\\end{equation}">>,
     <<"\\begin{align*}", "\\end{align*}">>}

MathBodies == {"x", "x+y", "a b"}

\* the text of a line before its comment: no % other than an escaped one
Befores == {"", "a ", "50\\% of ", "x\\\\% y "}

\* a comment, from its % to the end of the line, or no comment
Comments == {""} \cup {"%" \o c : c \in Strs(CommentAlphabet, MaxCommentLen)}

OtherEnvNames == {"itemize", "quote", "equationx", "math", "Align"}

SpecExample == "Hello \\cite{foo} world $x+y$ \\textbf{bold} text."

\* the documents the tokenizer is run on: how each text is written
Docs ==
    [kind : {"prose"}, text : Strs(ProseAlphabet, MaxProseLen)]
    \cup [kind : {"raw"}, text : Strs(RawAlphabet, MaxRawLen) \cup {SpecExample}]
    \cup [kind : {"cmd"}, pre : Contexts, name : GenericNames,
          arg : Strs(ArgAlphabet, MaxArgLen), post : Contexts]
    \cup [kind : {"drop"}, pre : {"", "Hi "}, name : DropNames, star : {"", "*"},
          opt : {"", "[p. 3]"}, arg : DropArgs, post : {"", " end"}]
    \cup [kind : {"math"}, pre : {"", "pre"}, delim : MathDelims, m1 : MathBodies,
          mid : {" mid ", "mid", " a b "}, m2 : MathBodies, post : {"", "post"}]
    \cup [kind : {"comment"}, before1 : Befores, comment1 : Comments,
          rest : {<<>>, <<"b", "">>, <<"b ", "%c">>}]
    \cup [kind : {"env"}, pre : {"", "Hi "}, name : MathEnvNames,
          body : Strs(MathAlphabet, MaxBodyLen), post : {"", "x"}]
    \cup [kind : {"env"}, pre : {"", "Hi "}, name : OtherEnvNames,
          body : Strs(WordAlphabet, MaxBodyLen), post : {"", "x"}]

\* the text of a document
Render(d) ==
    CASE d.kind \in {"prose", "raw"} -> d.text
      [] d.kind = "cmd" -> d.pre \o "\\" \o d.name \o "{" \o d.arg \o "}" \o d.post
      [] d.kind = "drop" ->
            d.pre \o "\\" \o d.name \o d.star \o d.opt \o "{" \o d.arg \o "}" \o d.post
      [] d.kind = "math" ->
            d.pre \o d.delim[1] \o d.m1 \o d.delim[2] \o d.mid
                  \o d.delim[1] \o d.m2 \o d.delim[2] \o d.post
      [] d.kind = "comment" ->
            d.before1 \o d.comment1
                \o (IF d.rest = <<>> THEN "" ELSE "\n" \o d.rest[1] \o d.rest[2])
      [] d.kind = "env" ->
            d.pre \o "\\begin{" \o d.name \o "}" \o d.body
                  \o "\\end{" \o d.name \o "}" \o d.post

\* ------------------------------------------------------------ state

\* doc: how the input is written; tex: the input text; tokens: the token list
\* (what extract_tokens_from_latex returned, what count_words is given);
\* top_n, result: the argument and the outcome of count_words;
\* pc: "ready" before a call and "done" after it
VARIABLES doc, tex, tokens, top_n, result, pc

\* one run of an entry point.
\* entry: "cli" (latex_wc/cli.py main) or "standalone" (main.py main);
\* args: the parsed options; fs: the files the run meets (what the input path
\* is, the .tex files behind it in discovery order, which output step fails);
\* mpc: where main stands; tex_files, next_file, read_failures: its locals;
\* fs_log: the file-system calls made so far; stdout, stderr: the lines
\* printed; written: the output files written; exit_code: -1 while running
VARIABLES entry, args, fs, mpc, tex_files, next_file, read_failures,
          fs_log, stdout, stderr, written, exit_code

cliVars == <<entry, args, fs, mpc, tex_files, next_file, read_failures,
             fs_log, stdout, stderr, written, exit_code>>

\* one call of a helper, or a series of calls of _configure_logging.
\* call: the helper called and its arguments; ret: what it returned or raised;
\* logger: the 'latex_wc' logger of the logging module (its level, the levels
\* of its handlers in the order they were added, its propagate flag);
\* debugs: the debug arguments of the _configure_logging calls made so far;
\* last_record: the last record logged, how often it was written to stderr
\* and after how many _configure_logging calls it was logged
VARIABLES call, ret, logger, debugs, last_record

auxVars == <<call, ret, logger, debugs, last_record>>

vars == <<doc, tex, tokens, top_n, result, pc, cliVars, auxVars>>

\* no entry point is running
NoRun ==
    /\ entry = "none"
    /\ args = [top |-> 1, min_len |-> 1, out_dir |-> ""]
    /\ fs = [kind |-> "missing", tree |-> {}, input |-> <<>>, content |-> <<>>,
             write_fails |-> "none"]
    /\ mpc = "start"
    /\ tex_files = <<>>
    /\ next_file = 1
    /\ read_failures = <<>>
    /\ fs_log = <<>>
    /\ stdout = <<>>
    /\ stderr = <<>>
    /\ written = <<>>
    /\ exit_code = 0 - 1

\* logging.DEBUG, INFO, WARNING, ERROR
DEBUG == 10
INFO == 20
WARNING == 30
ERROR == 40

\* logging.getLogger('latex_wc') before anything configured it
FreshLogger == [level |-> 0, handlers |-> <<>>, propagate |-> TRUE]

\* no helper is called and the logger is untouched
NoAux ==
    /\ call = [fn |-> "none"]
    /\ ret = [kind |-> "none"]
    /\ logger = FreshLogger
    /\ debugs = <<>>
    /\ last_record = [levelno |-> 0, emitted |-> 0, after |-> 0]

NoResult == [total |-> 0, unique |-> 0, top_words |-> <<>>, raised |-> "none"]

\* the tokenizer, run on one document
Init ==
    /\ doc \in Docs
    /\ tex = Render(doc)
    /\ tokens = <<>>
    /\ top_n = 0
    /\ result = NoResult
    /\ pc = "ready"
    /\ NoRun
    /\ NoAux

Extract ==
    /\ pc = "ready"
    /\ tokens' = extract_tokens_from_latex(tex)
    /\ pc' = "done"
    /\ UNCHANGED auxVars
    /\ UNCHANGED <<doc, tex, top_n, result, cliVars, auxVars>>

Next == Extract

Spec == Init /\ [][Next]_vars

\* the counter, run on one token list
InitCount ==
    /\ doc = [kind |-> "none"]
    /\ tex = ""
    /\ tokens \in Seqs(CountedWords, MaxTokens) \cup {SpecScenarioTokens}
    /\ top_n \in (0 - 1)..MaxTop \cup {10}
    /\ result = NoResult
    /\ pc = "ready"
    /\ NoRun
    /\ NoAux

CountWords ==
    /\ pc = "ready"
    /\ result' = count_words(tokens, top_n)
    /\ pc' = "done"
    /\ UNCHANGED auxVars
    /\ UNCHANGED <<doc, tex, tokens, top_n, cliVars, auxVars>>

NextCount == CountWords

SpecCount == InitCount /\ [][NextCount]_vars

\* ------------------------------------------------------------ discovery

\* A path is the sequence of its parts below "/": <<"r", "a.tex">> is
\* /r/a.tex.  A tree is a set of nodes [path, type, target]: type is "dir",
\* "file" or "link"; target is the path a symbolic link points to (a node
\* that is no link, or nothing), <<>> otherwise.

DEFAULT_EXCLUDE_DIRS ==
    <<".git", ".venv", "venv", "__pycache__", ".mypy_cache", ".ruff_cache",
      ".pytest_cache", "build", "dist">>

Parent(p) == SubSeq(p, 1, Len(p) - 1)
Name(p) == p[Len(p)]

Exists(tree, p) == \E n \in tree : n.path = p
NodeAt(tree, p) == CHOOSE n \in tree : n.path = p

\* Path.resolve(): a symbolic link is replaced by what it points to
RealPath(tree, p) ==
    IF Exists(tree, p) /\ NodeAt(tree, p).type = "link"
    THEN NodeAt(tree, p).target
    ELSE p

\* Path.is_dir() and os.path.isdir: symbolic links are followed
is_dir(tree, p) ==
    LET q == RealPath(tree, p)
    IN  Exists(tree, q) /\ NodeAt(tree, q).type = "dir"

islink(tree, p) == Exists(tree, p) /\ NodeAt(tree, p).type = "link"

\* name.lower().endswith('.tex')
EndsWithTex(name) ==
    /\ Len(name) >= 4
    /\ LowerStr(SubSeq(name, Len(name) - 3, Len(name))) = ".tex"

\* the characters of the names used, in code point order
CodePoints == ".0123456789" \o UpperChars \o "_" \o LowerChars
Ord(c) == CHOOSE i \in 1..Len(CodePoints) : At(CodePoints, i) = c

\* str < str
StrLess(a, b) ==
    \E k \in 1..(Len(a) + 1) :
        /\ k <= Len(b)
        /\ SubSeq(a, 1, k - 1) = SubSeq(b, 1, k - 1)
        /\ k = Len(a) + 1 \/ Ord(At(a, k)) < Ord(At(b, k))

\* Path < Path: the parts are compared as tuples of strings
PathLess(p, q) ==
    \E k \in 1..(Len(p) + 1) :
        /\ k <= Len(q)
        /\ SubSeq(p, 1, k - 1) = SubSeq(q, 1, k - 1)
        /\ k = Len(p) + 1 \/ StrLess(p[k], q[k])

\* tuple(sorted(set(found)))
sorted(paths) ==
    [i \in 1..Cardinality(paths) |->
        CHOOSE p \in paths : Cardinality({q \in paths : PathLess(q, p)}) = i - 1]

\* the walk that prunes by the exclude set alone and enters dot-directories
WalkDir_NoDotPruning(tree, dirpath, exclude_set) ==
    LET entries  == {n.path : n \in {m \in tree : Len(m.path) > 0 /\ Parent(m.path) = dirpath}}
        dirnames == {p \in entries : is_dir(tree, p)}
        kept     == {p \in dirnames : Name(p) \notin exclude_set}
        here     == {RealPath(tree, p) : p \in {f \in entries \ dirnames : EndsWithTex(Name(f))}}
    IN  [here |-> here, walk |-> {p \in kept : ~islink(tree, p)}]

\* one directory of os.walk(root) as discover_tex_files treats it: the
\* resolved .tex paths it appends to found, and the directories the walk
\* goes down (dirnames after the pruning, symbolic links not followed)
WalkDir(tree, dirpath, exclude_set) ==
    LET entries  == {n.path : n \in {m \in tree : Len(m.path) > 0 /\ Parent(m.path) = dirpath}}
        dirnames == {p \in entries : is_dir(tree, p)}
        kept     == {p \in dirnames :
                        Name(p) \notin exclude_set /\ ~StartsWith(Name(p), 1, ".")}
        here     == {RealPath(tree, p) : p \in {f \in entries \ dirnames : EndsWithTex(Name(f))}}
    IN  [here |-> here, walk |-> {p \in kept : ~islink(tree, p)}]

\* found, as a set, after os.walk(dirpath)
RECURSIVE WalkFound(_, _, _)
WalkFound(tree, dirpath, exclude_set) ==
    LET d == WalkDir(tree, dirpath, exclude_set)
    IN  d.here \cup UNION {WalkFound(tree, p, exclude_set) : p \in d.walk}

\* discover_tex_files(root, exclude_dirs=exclude_dirs) on the file tree
discover_tex_files(tree, root, exclude_dirs) ==
    LET resolved == RealPath(tree, root)
    IN  IF ~is_dir(tree, resolved)
        THEN [kind |-> "raised", value |-> "NotADirectoryError"]
        ELSE [kind |-> "files",
              value |-> sorted(WalkFound(tree, resolved,
                                         {exclude_dirs[k] : k \in 1..Len(exclude_dirs)}))]

File(p) == [path |-> p, type |-> "file", target |-> <<>>]
Dir(p) == [path |-> p, type |-> "dir", target |-> <<>>]
Link(p, t) == [path |-> p, type |-> "link", target |-> t]

TopNames == {"a.tex", "B.TEX", "n.txt"}
SubDirNames == {"sub", "build", ".hid", "Build"}
LinkTargets == {"none", "same", "outside", "broken"}

\* the trees searched: /r with the files top, the directory d holding x.tex
\* and deep/ (z.TEX and .tex), the link l.tex (to /r/d/x.tex, to /o/y.txt or
\* to nothing), the link dl to the directory /o, and /rl, a link to /r
Tree(top, d, l, dl) ==
    {Dir(<<"r">>), Dir(<<"o">>), File(<<"o", "y.txt">>), File(<<"o", "q.tex">>),
     Link(<<"rl">>, <<"r">>),
     Dir(<<"r", d>>), File(<<"r", d, "x.tex">>), Dir(<<"r", d, "deep">>),
     File(<<"r", d, "deep", "z.TEX">>), File(<<"r", d, "deep", ".tex">>)}
    \cup {File(<<"r", f>>) : f \in top}
    \cup (CASE l = "same"    -> {Link(<<"r", "l.tex">>, <<"r", d, "x.tex">>)}
            [] l = "outside" -> {Link(<<"r", "l.tex">>, <<"o", "y.txt">>)}
            [] l = "broken"  -> {Link(<<"r", "l.tex">>, <<"o", "gone">>)}
            [] OTHER         -> {})
    \cup (IF dl THEN {Link(<<"r", "dl">>, <<"o">>)} ELSE {})

Trees == {Tree(top, d, l, dl) : top \in SUBSET TopNames, d \in SubDirNames,
                                l \in LinkTargets, dl \in BOOLEAN}

Roots == {<<"r">>, <<"rl">>, <<"r", "n.txt">>, <<"gone">>}
         \cup {<<"r", d>> : d \in SubDirNames}

ExcludeDirs == {DEFAULT_EXCLUDE_DIRS, <<>>, <<"sub">>, <<"deep", "Build">>}

DiscoverCalls ==
    [fn : {"discover_tex_files"}, tree : Trees, root : Roots,
     exclude_dirs : ExcludeDirs]

\* discover_tex_files, called once
InitDiscover ==
    /\ doc = [kind |-> "none"]
    /\ tex = ""
    /\ tokens = <<>>
    /\ top_n = 0
    /\ result = NoResult
    /\ pc = "ready"
    /\ NoRun
    /\ call \in DiscoverCalls
    /\ ret = [kind |-> "none"]
    /\ logger = FreshLogger
    /\ debugs = <<>>
    /\ last_record = [levelno |-> 0, emitted |-> 0, after |-> 0]

DiscoverTexFiles ==
    /\ pc = "ready"
    /\ call.fn = "discover_tex_files"
    /\ ret' = discover_tex_files(call.tree, call.root, call.exclude_dirs)
    /\ pc' = "done"
    /\ UNCHANGED <<doc, tex, tokens, top_n, result, cliVars, call, logger,
                   debugs, last_record>>

NextDiscover == DiscoverTexFiles

SpecDiscover == InitDiscover /\ [][NextDiscover]_vars


\* ------------------------------------------------------------ entry points

\* the entry points, run once on one file system
FileTexts == {"a bb ccc dddd", "x'y \\cite{k}", "% none"}

\* what read_text_best_effort meets at a path: a text, or an OSError
FileStates ==
    [readable : {TRUE}, text : FileTexts] \cup {[readable |-> FALSE, text |-> ""]}

WriteFailures == {"none", "mkdir", "words", "csv"}

\* Path.suffix of a name
Suffix(name) ==
    LET dots == {i \in 1..Len(name) : At(name, i) = "."}
        i == IF dots = {} THEN 0 ELSE CHOOSE i \in dots : \A j \in dots : j <= i
    IN  IF 1 < i /\ i < Len(name) THEN SubSeq(name, i, Len(name)) ELSE ""

Path_exists(tree, p) == Exists(tree, RealPath(tree, p))

is_file(tree, p) ==
    LET q == RealPath(tree, p)
    IN  Exists(tree, q) /\ NodeAt(tree, q).type = "file"

\* the names of the .tex files a searched directory may hold
CliNames == {"b.tex", "A.TEX", "c.tex"}

\* the directory /r a run searches: the .tex files names, a file that is no
\* .tex file and a build directory
CliTree(names) ==
    {Dir(<<"r">>), File(<<"r", "n.txt">>), Dir(<<"r", "build">>),
     File(<<"r", "build", "x.tex">>)}
    \cup {File(<<"r", f>>) : f \in names}

Unsearched == [readable |-> TRUE, text |-> "zzz"]

\* the file systems a run meets.  tree: the nodes; input: the resolved input
\* path; content: what reading each file gives; write_fails: the output step
\* that raises an OSError
FileSystems ==
    [kind : {"missing"}, tree : {{Dir(<<"w">>)}}, input : {<<"w", "gone.tex">>},
     content : {<<>>}, write_fails : WriteFailures]
    \cup [kind : {"other"}, tree : {{Dir(<<"w">>), File(<<"w", "n.txt">>)}},
          input : {<<"w", "n.txt">>},
          content : {[p \in {<<"w", "n.txt">>} |-> Unsearched]},
          write_fails : WriteFailures]
    \cup [kind : {"tex"}, tree : {{Dir(<<"w">>), File(<<"w", "a.tex">>)}},
          input : {<<"w", "a.tex">>},
          content : [{<<"w", "a.tex">>} -> FileStates],
          write_fails : WriteFailures]
    \cup UNION {
           [kind : {"dir"}, tree : {CliTree(names)}, input : {<<"r">>},
            content : {[p \in {<<"r", "n.txt">>, <<"r", "build", "x.tex">>}
                               \cup {<<"r", f>> : f \in names} |->
                            IF Name(p) \in names /\ Len(p) = 2 THEN c[Name(p)]
                            ELSE Unsearched] : c \in [names -> FileStates]},
            write_fails : WriteFailures]
           : names \in {ns \in SUBSET CliNames : Cardinality(ns) <= MaxFiles}}

InitCli ==
    /\ entry \in {"cli", "standalone"}
    /\ args \in [top : (0 - 1)..2, min_len : (0 - 1)..3, out_dir : {"", "out"}]
    /\ fs \in FileSystems
    /\ args.out_dir = "" => fs.write_fails = "none"
    /\ mpc = "start"
    /\ tex_files = <<>>
    /\ next_file = 1
    /\ read_failures = <<>>
    /\ fs_log = <<>>
    /\ stdout = <<>>
    /\ stderr = <<>>
    /\ written = <<>>
    /\ exit_code = 0 - 1
    /\ doc = [kind |-> "none"]
    /\ tex = ""
    /\ tokens = <<>>
    /\ top_n = 0
    /\ result = NoResult
    /\ pc = "ready"
    /\ NoAux

\* return code from main, after the lines errs on stderr
Return(code, errs) ==
    /\ mpc' = "exit"
    /\ exit_code' = code
    /\ stderr' = stderr \o errs

\* cli.main up to its validation of --top and --min-len
CliValidate ==
    /\ entry = "cli"
    /\ mpc = "start"
    /\ LET error == _validate_common_inputs(args.top, args.min_len)
       IN  IF error # "None"
           THEN Return(2, <<"Error: " \o error>>)
           ELSE mpc' = "validated" /\ UNCHANGED <<exit_code, stderr>>
    /\ UNCHANGED auxVars
    /\ UNCHANGED <<doc, tex, tokens, top_n, result, pc, entry, args, fs,
                   tex_files, next_file, read_failures, fs_log, stdout, written>>

\* cli.main: _resolve_input_path (fs.input is the path it returns) and
\* _resolve_tex_files
CliResolve ==
    /\ entry = "cli"
    /\ mpc = "validated"
    /\ IF ~Path_exists(fs.tree, fs.input)
       THEN /\ fs_log' = fs_log \o <<"resolve", "exists">>
            /\ Return(2, <<"Error: path not found">>)
            /\ UNCHANGED tex_files
       ELSE IF is_file(fs.tree, fs.input)
       THEN /\ fs_log' = fs_log \o <<"resolve", "exists", "is_file">>
            /\ IF LowerStr(Suffix(Name(fs.input))) # ".tex"
               THEN Return(2, <<"Error: expected a .tex file">>)
                    /\ UNCHANGED tex_files
               ELSE /\ tex_files' = <<fs.input>>
                    /\ mpc' = "reading"
                    /\ UNCHANGED <<exit_code, stderr>>
       ELSE /\ fs_log' = fs_log \o <<"resolve", "exists", "is_file", "walk">>
            /\ LET discovery == discover_tex_files(fs.tree, fs.input,
                                                   DEFAULT_EXCLUDE_DIRS)
               IN  IF discovery.kind = "raised"
                   THEN Return(2, <<"Error: " \o discovery.value>>)
                        /\ UNCHANGED tex_files
                   ELSE IF discovery.value = <<>>
                   THEN Return(2, <<"Error: no .tex files found">>)
                        /\ UNCHANGED tex_files
                   ELSE /\ tex_files' = discovery.value
                        /\ mpc' = "reading"
                        /\ UNCHANGED <<exit_code, stderr>>
    /\ UNCHANGED auxVars
    /\ UNCHANGED <<doc, tex, tokens, top_n, result, pc, entry, args, fs,
                   next_file, read_failures, stdout, written>>

\* read_text_best_effort(p) and Path.read_text: what reading p gives
ReadText(p) ==
    IF is_file(fs.tree, p) THEN fs.content[RealPath(fs.tree, p)]
    ELSE [readable |-> FALSE, text |-> ""]

\* cli.main: one turn of the loop over tex_files
CliReadFile ==
    /\ entry = "cli"
    /\ mpc = "reading"
    /\ next_file <= Len(tex_files)
    /\ fs_log' = Append(fs_log, "read")
    /\ IF ReadText(tex_files[next_file]).readable
       THEN /\ tokens' = tokens \o FileTokens(ReadText(tex_files[next_file]).text,
                                              args.min_len)
            /\ UNCHANGED read_failures
       ELSE /\ read_failures' = Append(read_failures, next_file)
            /\ UNCHANGED tokens
    /\ next_file' = next_file + 1
    /\ UNCHANGED auxVars
    /\ UNCHANGED <<doc, tex, top_n, result, pc, entry, args, fs, mpc, tex_files,
                   stdout, stderr, written, exit_code>>

\* the run gives up when a file could not be read
NothingToReport_OrReadFailure == tokens = <<>> \/ read_failures # <<>>

\* if not tokens:
NothingToReport == tokens = <<>>

\* cli.main after the loop: the warnings, the check for no tokens,
\* build_result and _print_report
CliReport ==
    /\ entry = "cli"
    /\ mpc = "reading"
    /\ next_file > Len(tex_files)
    /\ LET warnings == [k \in 1..Len(read_failures) |-> "Warning: failed to read"]
       IN  IF NothingToReport
           THEN /\ Return(2, warnings \o <<"Error: no tokens extracted">>)
                /\ UNCHANGED <<top_n, result, stdout, fs_log>>
           ELSE /\ stderr' = stderr \o warnings
                /\ top_n' = args.top
                /\ result' = count_words(tokens, args.top)
                /\ fs_log' = Append(fs_log, "is_dir")
                /\ stdout' = stdout \o ReportLines(is_dir(fs.tree, fs.input), Len(tex_files),
                                                    args.top, result')
                /\ mpc' = "reported"
                /\ UNCHANGED exit_code
    /\ UNCHANGED auxVars
    /\ UNCHANGED <<doc, tex, tokens, pc, entry, args, fs, tex_files, next_file,
                   read_failures, written>>

\* the two writers, as far as fs.write_fails lets them go: the file-system
\* calls made and the files written
WriteCalls ==
    CASE fs.write_fails = "mkdir" -> <<"mkdir">>
      [] fs.write_fails = "words" -> <<"mkdir", "write">>
      [] OTHER -> <<"mkdir", "write", "mkdir", "write">>

WrittenFiles ==
    CASE fs.write_fails \in {"mkdir", "words"} -> <<>>
      [] fs.write_fails = "csv" ->
            <<[name |-> "words.txt", content |-> WordsTxt(tokens)]>>
      [] OTHER ->
            <<[name |-> "words.txt", content |-> WordsTxt(tokens)],
              [name |-> "top_words.csv", content |-> TopWordsCsv(result.top_words)]>>

WroteLines == <<<<"">>, <<"Wrote:", "words.txt">>, <<"Wrote:", "top_words.csv">>>>

\* the writing with the OSError of the writers swallowed
CliWrite_IgnoresWriteFailure ==
    /\ entry = "cli"
    /\ mpc = "reported"
    /\ IF args.out_dir = ""
       THEN Return(0, <<>>) /\ UNCHANGED <<fs_log, written, stdout>>
       ELSE /\ fs_log' = fs_log \o WriteCalls
            /\ written' = WrittenFiles
            /\ Return(0, <<>>)
            /\ stdout' = stdout \o WroteLines
    /\ UNCHANGED auxVars
    /\ UNCHANGED <<doc, tex, tokens, top_n, result, pc, entry, args, fs,
                   tex_files, next_file, read_failures>>

\* cli.main: _resolve_out_dir and the writing of the two output files
CliWrite ==
    /\ entry = "cli"
    /\ mpc = "reported"
    /\ IF args.out_dir = ""
       THEN Return(0, <<>>) /\ UNCHANGED <<fs_log, written, stdout>>
       ELSE /\ fs_log' = fs_log \o WriteCalls
            /\ written' = WrittenFiles
            /\ IF fs.write_fails = "none"
               THEN Return(0, <<>>) /\ stdout' = stdout \o WroteLines
               ELSE Return(2, <<"Error: failed writing outputs">>)
                    /\ UNCHANGED stdout
    /\ UNCHANGED auxVars
    /\ UNCHANGED <<doc, tex, tokens, top_n, result, pc, entry, args, fs,
                   tex_files, next_file, read_failures>>

\* main.py main up to its last check: the document is resolved and looked
\* for, then its suffix, --top and --min-len are checked
MainValidate ==
    /\ entry = "standalone"
    /\ mpc = "start"
    /\ fs_log' = fs_log \o <<"resolve", "exists">>
    /\ IF ~Path_exists(fs.tree, fs.input)
       THEN Return(2, <<"Error: document not found">>) /\ UNCHANGED tex_files
       ELSE IF LowerStr(Suffix(Name(fs.input))) # ".tex"
       THEN Return(2, <<"Error: expected a .tex file">>) /\ UNCHANGED tex_files
       ELSE IF args.top <= 0
       THEN Return(2, <<"Error: --top must be > 0">>) /\ UNCHANGED tex_files
       ELSE IF args.min_len <= 0
       THEN Return(2, <<"Error: --min-len must be > 0">>) /\ UNCHANGED tex_files
       ELSE /\ tex_files' = <<fs.input>>
            /\ mpc' = "validated"
            /\ UNCHANGED <<exit_code, stderr>>
    /\ UNCHANGED auxVars
    /\ UNCHANGED <<doc, tex, tokens, top_n, result, pc, entry, args, fs,
                   next_file, read_failures, stdout, written>>

\* main.py main: the document is read, tokenized, counted and reported; an
\* OSError of the read is not caught and ends the process with code 1
MainReport ==
    /\ entry = "standalone"
    /\ mpc = "validated"
    /\ fs_log' = Append(fs_log, "read")
    /\ IF ReadText(tex_files[1]).readable
       THEN /\ tokens' = FileTokens(ReadText(tex_files[1]).text, args.min_len)
            /\ top_n' = args.top
            /\ result' = count_words(tokens', args.top)
            /\ stdout' = stdout \o ReportLines(FALSE, 1, args.top, result')
            /\ mpc' = "reported"
            /\ UNCHANGED <<exit_code, stderr>>
       ELSE /\ Return(1, <<"Traceback: OSError">>)
            /\ UNCHANGED <<tokens, top_n, result, stdout>>
    /\ UNCHANGED auxVars
    /\ UNCHANGED <<doc, tex, pc, entry, args, fs, tex_files, next_file,
                   read_failures, written>>

\* main.py main: the two output files; an OSError of a writer is not caught
MainWrite ==
    /\ entry = "standalone"
    /\ mpc = "reported"
    /\ IF args.out_dir = ""
       THEN Return(0, <<>>) /\ UNCHANGED <<fs_log, written, stdout>>
       ELSE /\ fs_log' = fs_log \o WriteCalls
            /\ written' = WrittenFiles
            /\ IF fs.write_fails = "none"
               THEN Return(0, <<>>) /\ stdout' = stdout \o WroteLines
               ELSE Return(1, <<"Traceback: OSError">>) /\ UNCHANGED stdout
    /\ UNCHANGED auxVars
    /\ UNCHANGED <<doc, tex, tokens, top_n, result, pc, entry, args, fs,
                   tex_files, next_file, read_failures>>

NextCli ==
    \/ CliValidate
    \/ CliResolve
    \/ CliReadFile
    \/ CliReport
    \/ CliWrite
    \/ MainValidate
    \/ MainReport
    \/ MainWrite

SpecCli == InitCli /\ [][NextCli]_vars

\* ------------------------------------------------------------ the input path

\* an optional string: None is <<>>, the string s is <<s>>
None == <<>>
Some(s) == <<s>>

\* the truth value Python gives an optional string: None and '' are false
Truthy(o) == o # None /\ o[1] # ""

HomeDir == "/home/u"

\* Path(p).expanduser().resolve() in the directory cwd: a leading ~ becomes
\* the home directory, a relative path is made absolute; none of the paths
\* used here names a symbolic link or holds a ".." part
ResolvePath(p, cwd) ==
    LET expanded == IF At(p, 1) = "~" /\ At(p, 2) \in {"", "/"}
                    THEN HomeDir \o SubSeq(p, 2, Len(p))
                    ELSE p
    IN  IF At(expanded, 1) = "/" THEN expanded ELSE cwd \o "/" \o expanded

\* the precedence with --document-path looked at first
resolve_input_path_DocumentPathFirst(positional, document_path, env_doc, cwd) ==
    IF Truthy(document_path) THEN ResolvePath(document_path[1], cwd)
    ELSE IF Truthy(positional) THEN ResolvePath(positional[1], cwd)
    ELSE IF Truthy(env_doc) THEN ResolvePath(env_doc[1], cwd)
    ELSE cwd

\* _resolve_input_path(positional, document_path), with the two things it
\* reads: env_doc is os.environ.get('DOCUMENT_PATH'), cwd is Path.cwd()
_resolve_input_path(positional, document_path, env_doc, cwd) ==
    IF Truthy(positional) THEN ResolvePath(positional[1], cwd)
    ELSE IF Truthy(document_path) THEN ResolvePath(document_path[1], cwd)
    ELSE IF Truthy(env_doc) THEN ResolvePath(env_doc[1], cwd)
    ELSE cwd

Positionals == {None, Some(""), Some("a.tex"), Some("/d")}
DocumentPaths == {None, Some(""), Some("b.tex"), Some("~/c.tex")}
EnvDocs == {None, Some(""), Some("e.tex")}
Cwds == {"/w", HomeDir}

ResolveCalls ==
    [fn : {"_resolve_input_path"}, positional : Positionals,
     document_path : DocumentPaths, env_doc : EnvDocs, cwd : Cwds]

\* _resolve_input_path, called once
InitResolve ==
    /\ doc = [kind |-> "none"]
    /\ tex = ""
    /\ tokens = <<>>
    /\ top_n = 0
    /\ result = NoResult
    /\ pc = "ready"
    /\ NoRun
    /\ call \in ResolveCalls
    /\ ret = [kind |-> "none"]
    /\ logger = FreshLogger
    /\ debugs = <<>>
    /\ last_record = [levelno |-> 0, emitted |-> 0, after |-> 0]

ResolveInputPath ==
    /\ pc = "ready"
    /\ call.fn = "_resolve_input_path"
    /\ ret' = [kind |-> "path",
               value |-> _resolve_input_path(call.positional, call.document_path,
                                             call.env_doc, call.cwd)]
    /\ pc' = "done"
    /\ UNCHANGED <<doc, tex, tokens, top_n, result, cliVars, call, logger,
                   debugs, last_record>>

NextResolve == ResolveInputPath

SpecResolve == InitResolve /\ [][NextResolve]_vars

\* ------------------------------------------------------------ logging

MaxCalls == 3

\* the configuration that attaches a handler on every call
configure_logging_NoGuard(lg, debug) ==
    LET level == IF debug THEN DEBUG ELSE INFO
    IN  [level |-> level, handlers |-> Append(lg.handlers, level),
         propagate |-> FALSE]

\* _configure_logging(debug) on the logger lg: the logger afterwards
_configure_logging(lg, debug) ==
    IF lg.handlers # <<>>
    THEN [lg EXCEPT !.level = IF debug THEN DEBUG ELSE INFO]
    ELSE LET level == IF debug THEN DEBUG ELSE INFO
         IN  [level |-> level, handlers |-> Append(lg.handlers, level),
              propagate |-> FALSE]

\* logger.log(levelno, ..): the number of times the record is written to
\* stderr: it passes the logger when levelno >= logger.level and then every
\* handler with levelno >= handler.level writes it
Emitted(lg, levelno) ==
    IF levelno >= lg.level
    THEN Cardinality({h \in 1..Len(lg.handlers) : levelno >= lg.handlers[h]})
    ELSE 0

\* a series of _configure_logging calls in one process
InitLog ==
    /\ doc = [kind |-> "none"]
    /\ tex = ""
    /\ tokens = <<>>
    /\ top_n = 0
    /\ result = NoResult
    /\ pc = "ready"
    /\ NoRun
    /\ NoAux

ConfigureLogging ==
    /\ call.fn = "none"
    /\ Len(debugs) < MaxCalls
    /\ \E debug \in BOOLEAN :
          /\ logger' = _configure_logging(logger, debug)
          /\ debugs' = Append(debugs, debug)
    /\ UNCHANGED <<doc, tex, tokens, top_n, result, pc, cliVars, call, ret,
                   last_record>>

\* logger.debug, .info, .warning or .error on the logger a call returned
LogRecord ==
    /\ call.fn = "none"
    /\ debugs # <<>>
    /\ \E levelno \in {DEBUG, INFO, WARNING, ERROR} :
          last_record' = [levelno |-> levelno,
                          emitted |-> Emitted(logger, levelno),
                          after |-> Len(debugs)]
    /\ UNCHANGED <<doc, tex, tokens, top_n, result, pc, cliVars, call, ret,
                   logger, debugs>>

NextLog == ConfigureLogging \/ LogRecord

SpecLog == InitLog /\ [][NextLog]_vars

\* ------------------------------------------------------------ what the
\* claims speak of

\* the words of a plain text, stated on its maximal runs of letters and not by
\* a scan: a run is a tail when it is joined by one apostrophe to the run
\* before it and that run is not a tail itself
RunFirst(s, k) ==
    CHOOSE i \in 1..k : /\ \A j \in i..k : At(s, j) \in Letters
                        /\ At(s, i - 1) \notin Letters

RunLast(s, k) ==
    CHOOSE j \in k..Len(s) : /\ \A i \in k..j : At(s, i) \in Letters
                             /\ At(s, j + 1) \notin Letters

RECURSIVE IsTail(_, _)
IsTail(s, i) ==
    /\ At(s, i - 1) = "'"
    /\ At(s, i - 2) \in Letters
    /\ ~IsTail(s, RunFirst(s, i - 2))

\* the positions where a word starts
WordStarts(s) ==
    {i \in 1..Len(s) : At(s, i) \in Letters /\ RunFirst(s, i) = i /\ ~IsTail(s, i)}

\* the word that starts at i, its tail included
WordAt(s, i) ==
    LET j == RunLast(s, i)
    IN  IF At(s, j + 1) = "'" /\ At(s, j + 2) \in Letters
        THEN SubSeq(s, i, RunLast(s, j + 2))
        ELSE SubSeq(s, i, j)

RECURSIVE Ascending(_)
Ascending(S) ==
    IF S = {} THEN <<>>
    ELSE LET m == CHOOSE x \in S : \A y \in S : x <= y
         IN  <<m>> \o Ascending(S \ {m})

\* the words of a plain text, left to right, in the case they are written in
ProseWords(s) ==
    LET at == Ascending(WordStarts(s))
    IN  [k \in 1..Len(at) |-> WordAt(s, at[k])]

\* c and d are the same letter in either case, or the same character
SameLetter(c, d) ==
    \/ c = d
    \/ \E k \in 1..Len(UpperChars) :
          {c, d} = {At(UpperChars, k), At(LowerChars, k)}

\* tok is word with every upper-case letter replaced by its lower-case one
IsLowered(tok, word) ==
    /\ Len(tok) = Len(word)
    /\ \A k \in 1..Len(tok) : SameLetter(At(tok, k), At(word, k))
                              /\ At(tok, k) \notin Upper

\* toks are the given words, lowercased, in order
AreLowered(toks, words) ==
    /\ Len(toks) = Len(words)
    /\ \A k \in 1..Len(toks) : IsLowered(toks[k], words[k])

\* a token has the shape a-z+ or a-z+'a-z+
WellShaped(tok) ==
    /\ Len(tok) > 0
    /\ \A k \in 1..Len(tok) : At(tok, k) \in Lower \cup {"'"}
    /\ Cardinality({k \in 1..Len(tok) : At(tok, k) = "'"}) <= 1
    /\ At(tok, 1) # "'"
    /\ At(tok, Len(tok)) # "'"

Called == pc = "done"

\* the environment names the tokenizer is said to remove with their content
ClaimedMathEnvs ==
    {"equation", "equation*", "align", "align*", "gather", "gather*",
     "multline", "multline*"}

\* ------------------------------------------------------------ claims

\* C1: a generic command \name written directly before {arg}, arg plain
\* words: the name gives no token and the tokens are exactly the words before
\* the command, the words of arg and the words after it, lowercased, in
\* order; and the text of the specification's scenario gives
\* hello, world, bold, text.
C1_GenericCommandKeepsArgument ==
    Called =>
        /\ doc.kind = "cmd" =>
              AreLowered(tokens, ProseWords(doc.pre) \o ProseWords(doc.arg)
                                     \o ProseWords(doc.post))
        /\ tex = SpecExample => tokens = <<"hello", "world", "bold", "text">>

C1_Witness ==
    /\ Called
    /\ doc.kind = "cmd"
    /\ doc.name = "citefoo"
    /\ tex = "x\\citefoo{B}it's "
    /\ tokens = <<"x", "b", "it's">>

\* C2: a drop-command \cmd, optional *, optional [options], one {argument},
\* for any brace-balanced argument: no token comes from the name, the options
\* or the argument, and the prose before and after is kept.
C2_DropCommandLeavesNoToken ==
    Called /\ doc.kind = "drop" =>
        AreLowered(tokens, ProseWords(doc.pre) \o ProseWords(doc.post))

\* C3: two well-formed math spans of one kind with prose between them: no
\* token comes from inside a span, the words between the spans are all
\* emitted, and the words next to a span stay separate tokens.
C3_MathSpansRemovedSeparately ==
    Called /\ doc.kind = "math" =>
        AreLowered(tokens, ProseWords(doc.pre) \o ProseWords(doc.mid)
                               \o ProseWords(doc.post))

\* C4: on every line the text from the first % not directly preceded by a
\* backslash to the end of the line gives no token, the text before it and
\* the other lines are unaffected (an escaped % starts no comment, the words
\* after it are tokenized), and a text that is one comment line gives no
\* token at all.
C4_CommentsContributeNoToken ==
    Called /\ doc.kind = "comment" =>
        LET line2 == IF doc.rest = <<>> THEN "" ELSE doc.rest[1]
        IN  /\ _strip_comments(tex)
                  = doc.before1 \o (IF doc.rest = <<>> THEN "" ELSE "\n" \o line2)
            /\ AreLowered(tokens, ProseWords(doc.before1) \o ProseWords(line2))
            /\ doc.before1 = "" /\ doc.rest = <<>> => tokens = <<>>

C4_Witness ==
    /\ Called
    /\ doc.kind = "comment"
    /\ tex = "50\\% of %c\\\nb %c"
    /\ tokens = <<"of", "b">>

\* C5: on plain prose the tokens are exactly the maximal runs of letters,
\* each extended by one apostrophe and the letters after it where there are
\* such, lowercased, left to right; and on every input each token is
\* non-empty, made of a-z and at most one apostrophe that is neither first
\* nor last.
C5_ProseTokens ==
    Called =>
        /\ \A k \in 1..Len(tokens) : WellShaped(tokens[k])
        /\ doc.kind = "prose" => AreLowered(tokens, ProseWords(tex))

C5_Witness ==
    /\ Called
    /\ doc.kind = "prose"
    /\ tex = "B'a1"
    /\ tokens = <<"b'a">>

\* C6: a \begin{E}...\end{E} region: for E one of the eight math
\* environments nothing between the tags is emitted; for any other E only the
\* tags go, the name gives no token and every word between the tags is
\* emitted.
C6_Environments ==
    Called /\ doc.kind = "env" =>
        IF doc.name \in ClaimedMathEnvs
        THEN AreLowered(tokens, ProseWords(doc.pre) \o ProseWords(doc.post))
        ELSE AreLowered(tokens, ProseWords(doc.pre) \o ProseWords(doc.body)
                                    \o ProseWords(doc.post))

C6_Witness ==
    /\ Called
    /\ doc.kind = "env"
    /\ tex = "Hi \\begin{equationx}aB\\end{equationx}x"
    /\ tokens = <<"hi", "ab", "x">>

\* the number of times tok occurs in the counted list, and where it is first
Occurrences(tok) == Cardinality({k \in 1..Len(tokens) : tokens[k] = tok})

FirstSeen(tok) ==
    CHOOSE k \in 1..Len(tokens) :
        tokens[k] = tok /\ \A j \in 1..(k - 1) : tokens[j] # tok

Distinct == {tokens[k] : k \in 1..Len(tokens)}

Ranked == result.top_words

Listed == {Ranked[k][1] : k \in 1..Len(Ranked)}

RECURSIVE SumOfRanked(_)
SumOfRanked(k) == IF k = 0 THEN 0 ELSE Ranked[k][2] + SumOfRanked(k - 1)

\* C7: total is the length of the token list and unique the number of
\* distinct tokens; when top_n >= unique the ranked list holds every distinct
\* token exactly once with its number of occurrences, so its counts sum to
\* total, with no padding and no error.
C7_TotalsAndFullRanking ==
    Called =>
        /\ result.total = Len(tokens)
        /\ result.unique = Cardinality(Distinct)
        /\ top_n >= result.unique =>
              /\ result.raised = "none"
              /\ Len(Ranked) = Cardinality(Distinct)
              /\ \A tok \in Distinct :
                    Cardinality({k \in 1..Len(Ranked) : Ranked[k][1] = tok}) = 1
              /\ \A k \in 1..Len(Ranked) :
                    Ranked[k][2] = Occurrences(Ranked[k][1])
              /\ SumOfRanked(Len(Ranked)) = result.total

C7_Witness ==
    /\ Called
    /\ tokens = <<"a", "b", "b">>
    /\ top_n = 10
    /\ result.total = 3
    /\ result.unique = 2
    /\ Ranked = <<<<"b", 2>>, <<"a", 1>>>>

\* C8: for top_n > 0 the ranked list has min(top_n, unique) entries, its
\* counts never increase, no token left out has a count above the last one
\* listed, and of two tokens with the same count the one first seen earlier
\* is ranked earlier: a, b, b, c, c with top_n = 2 gives (b, 2), (c, 2).
C8_RankedOrder ==
    Called /\ top_n > 0 =>
        /\ Len(Ranked) = (IF top_n < Cardinality(Distinct)
                          THEN top_n ELSE Cardinality(Distinct))
        /\ \A k \in 1..Len(Ranked) :
              Ranked[k][1] \in Distinct /\ Ranked[k][2] = Occurrences(Ranked[k][1])
        /\ \A k \in 1..(Len(Ranked) - 1) : Ranked[k][2] >= Ranked[k + 1][2]
        /\ \A tok \in Distinct \ Listed :
              /\ Occurrences(tok) <= Ranked[Len(Ranked)][2]
              /\ \A k \in 1..Len(Ranked) :
                    Ranked[k][2] = Occurrences(tok) =>
                        FirstSeen(Ranked[k][1]) < FirstSeen(tok)
        /\ \A k \in 1..Len(Ranked) : \A j \in (k + 1)..Len(Ranked) :
              Ranked[k][2] = Ranked[j][2] =>
                  FirstSeen(Ranked[k][1]) < FirstSeen(Ranked[j][1])
        /\ tokens = <<"a", "b", "b", "c", "c">> /\ top_n = 2 =>
              Ranked = <<<<"b", 2>>, <<"c", 2>>>>
        /\ tokens = SpecScenarioTokens /\ top_n = 2 =>
              /\ result.total = 6
              /\ result.unique = 3
              /\ Ranked = <<<<"b", 3>>, <<"c", 2>>>>

C8_Witness ==
    /\ Called
    /\ tokens = <<"a", "b", "b", "c", "c">>
    /\ top_n = 2
    /\ Ranked = <<<<"b", 2>>, <<"c", 2>>>>

\* C9: count_words called with top_n <= 0 fails with an invalid-argument
\* error and returns no result.
C9_NonPositiveTopNRejected ==
    Called /\ top_n <= 0 => result.raised = "InvalidArgument"

\* C10: in both entry points a run with --top <= 0 or --min-len <= 0 returns
\* 2 before any file-system access: no path is looked for, no file is read,
\* nothing is printed to stdout and no output file is written.
C10_InvalidOptionsRejectedBeforeIO ==
    entry # "none" /\ (args.top <= 0 \/ args.min_len <= 0) =>
        /\ fs_log = <<>>
        /\ stdout = <<>>
        /\ written = <<>>
        /\ mpc = "exit" => exit_code = 2

\* the sources of the input path in their order of precedence, and the first
\* of them that is given and not empty (0: none)
Sources(c) == <<c.positional, c.document_path, c.env_doc>>
FirstGiven(c) ==
    IF \A k \in 1..3 : ~Truthy(Sources(c)[k]) THEN 0
    ELSE CHOOSE k \in 1..3 :
            Truthy(Sources(c)[k]) /\ \A j \in 1..(k - 1) : ~Truthy(Sources(c)[j])

\* C11: _resolve_input_path returns the first given, non-empty source among
\* the positional PATH, --document-path and $DOCUMENT_PATH, resolved, and the
\* working directory when there is none; the sources after the chosen one
\* do not change the result.
C11_InputPathPrecedence ==
    Called /\ call.fn = "_resolve_input_path" =>
        LET k == FirstGiven(call)
        IN  /\ k = 0 => ret.value = call.cwd
            /\ k > 0 => ret.value = ResolvePath(Sources(call)[k][1], call.cwd)
            /\ \A other \in ResolveCalls :
                    /\ other.cwd = call.cwd
                    /\ FirstGiven(other) = k
                    /\ k > 0 => Sources(other)[k] = Sources(call)[k]
                    => _resolve_input_path(other.positional, other.document_path,
                                           other.env_doc, other.cwd) = ret.value

C11_Witness ==
    /\ Called
    /\ call.fn = "_resolve_input_path"
    /\ call.positional = Some("a.tex")
    /\ call.document_path = Some("b.tex")
    /\ call.env_doc = Some("e.tex")
    /\ call.cwd = "/w"
    /\ ret.value = "/w/a.tex"

\* cli.main has left its loop over the files
PastLoop == entry = "cli" /\ tex_files # <<>> /\ mpc \in {"reported", "exit"}

CountOf(seq, x) == Cardinality({i \in 1..Len(seq) : seq[i] = x})

\* the files of the run that cannot be read
Unreadable == {k \in 1..Len(tex_files) : ~fs.content[tex_files[k]].readable}

\* the tokens of the k-th file that are at least --min-len long
LongEnough(k) ==
    LET toks == extract_tokens_from_latex(fs.content[tex_files[k]].text)
    IN  {toks[i] : i \in {j \in 1..Len(toks) : Len(toks[j]) >= args.min_len}}

\* no readable file gives a token
NoneYields == \A k \in 1..Len(tex_files) : k \in Unreadable \/ LongEnough(k) = {}

\* the first line of a report
ReportPrinted(out) == out # <<>> /\ out[1][1] \in {"Document:", "Directory:"}

\* C12: in cli.main a file whose read fails is skipped with a warning and the
\* files after it are still read and tokenized; once all files are processed
\* the run returns 2 without a report exactly when no token was collected,
\* and goes on to the report otherwise, read failures or not.
C12_ReadFailuresSkipped ==
    PastLoop =>
        /\ CountOf(fs_log, "read") = Len(tex_files)
        /\ CountOf(stderr, "Warning: failed to read") = Cardinality(Unreadable)
        /\ \A k \in 1..Len(tex_files) :
               k \notin Unreadable =>
                   \A t \in LongEnough(k) : \E i \in 1..Len(tokens) : tokens[i] = t
        /\ NoneYields <=> tokens = <<>>
        /\ tokens = <<>> <=> ~ReportPrinted(stdout)
        /\ tokens = <<>> => mpc = "exit" /\ exit_code = 2 /\ stdout = <<>>

C12_Witness ==
    /\ PastLoop
    /\ Len(tex_files) = 2
    /\ Unreadable = {1}
    /\ tokens = <<"x'y">>
    /\ mpc = "reported"
    /\ ReportPrinted(stdout)
    /\ stderr = <<"Warning: failed to read">>

\* out starts with the lines of pre
IsPrefix(pre, out) == Len(pre) <= Len(out) /\ SubSeq(out, 1, Len(pre)) = pre

\* the run has called a writer
WriteAttempted == CountOf(fs_log, "mkdir") > 0

WroteLinePrinted == \E i \in 1..Len(stdout) : stdout[i][1] = "Wrote:"

\* C13: in cli.main the report is on stdout before any artifact is written
\* and is never taken back; when making the directory or writing words.txt
\* or top_words.csv fails the run returns 2 and prints no 'Wrote:' line; when
\* both writes succeed it returns 0; with an empty output directory setting
\* nothing is written.
C13_ReportBeforeArtifacts ==
    /\ [][entry = "cli" /\ (written' # written \/ fs_log' # fs_log)
              /\ CountOf(fs_log', "mkdir") > 0
              => ReportPrinted(stdout)]_vars
    /\ [][entry = "cli" => IsPrefix(stdout, stdout')]_vars
    /\ [](entry = "cli" /\ mpc = "exit" /\ WriteAttempted =>
             IF fs.write_fails # "none"
             THEN exit_code = 2 /\ ~WroteLinePrinted /\ ReportPrinted(stdout)
             ELSE /\ exit_code = 0
                  /\ [k \in 1..Len(written) |-> written[k].name]
                         = <<"words.txt", "top_words.csv">>)
    /\ [](entry = "cli" /\ args.out_dir = "" =>
             written = <<>> /\ ~WriteAttempted /\ CountOf(fs_log, "write") = 0)

C13_Witness ==
    /\ entry = "cli"
    /\ mpc = "exit"
    /\ args.out_dir = "out"
    /\ fs.write_fails = "csv"
    /\ exit_code = 2
    /\ ReportPrinted(stdout)
    /\ Len(written) = 1
    /\ written[1].name = "words.txt"

\* the tokens of the k-th file that are at least --min-len long, in the order
\* the tokenizer gave them; none when the file cannot be read
KeptTokens(k) ==
    IF k \in Unreadable THEN <<>>
    ELSE LET toks == extract_tokens_from_latex(fs.content[tex_files[k]].text)
             idx  == {j \in 1..Len(toks) : Len(toks[j]) >= args.min_len}
         IN  [n \in 1..Cardinality(idx) |->
                 toks[CHOOSE j \in idx : Cardinality({i \in idx : i < j}) = n - 1]]

\* the kept tokens of the first k files, one file after the other
RECURSIVE KeptUpTo(_)
KeptUpTo(k) == IF k = 0 THEN <<>> ELSE KeptUpTo(k - 1) \o KeptTokens(k)

RECURSIVE KeptCountUpTo(_)
KeptCountUpTo(k) == IF k = 0 THEN 0 ELSE KeptCountUpTo(k - 1) + Len(KeptTokens(k))

\* C14: the tokens cli.main counts and dumps are the tokens of the readable
\* files, file after file in ascending order of their paths, without the
\* tokens shorter than --min-len and otherwise in the tokenizer's order; the
\* total is the sum of the files' kept tokens.
C14_TokensInDiscoveryOrder ==
    PastLoop =>
        /\ \A i, j \in 1..Len(tex_files) :
               i < j => PathLess(tex_files[i], tex_files[j])
        /\ tokens = KeptUpTo(Len(tex_files))
        /\ ReportPrinted(stdout) =>
               /\ result.total = KeptCountUpTo(Len(tex_files))
               /\ \E i \in 1..Len(stdout) :
                      stdout[i] = <<"Total words:", KeptCountUpTo(Len(tex_files))>>
        /\ \A k \in 1..Len(written) :
               written[k].name = "words.txt" =>
                   splitlines(written[k].content) = KeptUpTo(Len(tex_files))

C14_Witness ==
    /\ PastLoop
    /\ tex_files = <<<<"r", "A.TEX">>, <<"r", "b.tex">>>>
    /\ fs.content[<<"r", "A.TEX">>].text = "x'y \\cite{k}"
    /\ fs.content[<<"r", "b.tex">>].text = "a bb ccc dddd"
    /\ args.min_len = 3
    /\ tokens = <<"x'y", "ccc", "dddd">>
    /\ result.total = 3
    /\ written # <<>>

RECURSIVE TotalLen(_)
TotalLen(toks) == IF toks = <<>> THEN 0 ELSE Len(Head(toks)) + TotalLen(Tail(toks))

NewLines(s) == Cardinality({i \in 1..Len(s) : At(s, i) = "\n"})

\* C15: words.txt read back and split into lines gives the token sequence
\* that was written, token for token; the file holds the tokens joined by
\* newlines and one newline after the last.
C15_WordsTxtRoundTrip ==
    \A k \in 1..Len(written) :
        written[k].name = "words.txt" =>
            LET content == written[k].content
                n == Len(tokens)
            IN  /\ splitlines(content) = tokens
                /\ Len(splitlines(content)) = n
                /\ At(content, Len(content)) = "\n"
                /\ NewLines(content) = IF n = 0 THEN 1 ELSE n
                /\ Len(content) = TotalLen(tokens) + NewLines(content)

\* name ends in .tex, whatever the case of its letters
TexName(name) ==
    LET n == Len(name)
    IN  /\ n >= 4
        /\ At(name, n - 3) = "."
        /\ At(name, n - 2) \in {"t", "T"}
        /\ At(name, n - 1) \in {"e", "E"}
        /\ At(name, n) \in {"x", "X"}

\* the entries of the tree of call c that are to be found: what is no
\* directory, has a .tex name and lies under the root with no directory
\* between the root and it that is excluded by name or starts with "."
ToBeFound(c) ==
    LET root == RealPath(c.tree, c.root)
        excl == {c.exclude_dirs[k] : k \in 1..Len(c.exclude_dirs)}
    IN  {n \in c.tree :
            /\ Len(n.path) > Len(root)
            /\ SubSeq(n.path, 1, Len(root)) = root
            /\ ~is_dir(c.tree, n.path)
            /\ TexName(Name(n.path))
            /\ \A k \in (Len(root) + 1)..(Len(n.path) - 1) :
                   /\ n.path[k] \notin excl
                   /\ At(n.path[k], 1) # "."}

\* C16: discover_tex_files returns, by their resolved paths, exactly the
\* entries under root that are no directories, have a name ending in .tex in
\* any case and lie below no directory named in exclude_dirs (the caller's
\* set, when one is given, instead of the default) or starting with "."; each
\* path once, in ascending order; a root that is no directory raises
\* NotADirectoryError.
C16_DiscoveryResult ==
    Called /\ call.fn = "discover_tex_files" =>
        IF ~is_dir(call.tree, call.root)
        THEN ret = [kind |-> "raised", value |-> "NotADirectoryError"]
        ELSE /\ ret.kind = "files"
             /\ {ret.value[i] : i \in 1..Len(ret.value)}
                    = {RealPath(call.tree, n.path) : n \in ToBeFound(call)}
             /\ \A i, j \in 1..Len(ret.value) :
                    i < j => /\ ret.value[i] # ret.value[j]
                             /\ PathLess(ret.value[i], ret.value[j])

C16_Witness ==
    /\ Called
    /\ call.fn = "discover_tex_files"
    /\ call.tree = Tree(TopNames, "build", "none", FALSE)
    /\ call.root = <<"r">>
    /\ call.exclude_dirs = <<"sub">>
    /\ ret.value = <<<<"r", "B.TEX">>, <<"r", "a.tex">>,
                     <<"r", "build", "deep", ".tex">>,
                     <<"r", "build", "deep", "z.TEX">>,
                     <<"r", "build", "x.tex">>>>

\* C17: after one or more calls of _configure_logging the logger has exactly
\* one handler.
C17_OneHandler ==
    debugs # <<>> => Len(logger.handlers) = 1

C17_Witness ==
    /\ debugs = <<TRUE, FALSE, TRUE>>
    /\ Len(logger.handlers) = 1

\* C18: a record logged after the most recent _configure_logging call is
\* written to stderr exactly when its level is at least the level that call
\* asked for: DEBUG after debug=True, INFO after debug=False, whatever the
\* earlier calls asked for.
C18_LastCallSetsVerbosity ==
    debugs # <<>> /\ last_record.after = Len(debugs) =>
        LET asked == IF debugs[Len(debugs)] THEN DEBUG ELSE INFO
        IN  last_record.emitted > 0 <=> last_record.levelno >= asked

====
